---- MODULE Spec2Model ----
(***************************************************************************)
(* A model of the Aether request client (AetherClient): session identity   *)
(* kept in localStorage, the retrying request engine with its per-attempt  *)
(* abort timer, and the operations built on it (sendChatMessage,           *)
(* getChatHistory, testConnection, plain propagating calls such as         *)
(* getHealth), and of the terminal session of the main process             *)
(* (ClaudeTerminal): the pseudo-terminal it owns, its running flag, its    *)
(* events and the command line it composes for the assistant.              *)
(*                                                                         *)
(* JavaScript runs one task at a time, so every action below is the code   *)
(* that runs between two suspension points (await / timer / event).        *)
(***************************************************************************)
EXTENDS Integers, Sequences, FiniteSets, TLC

\* ---------------------------------------------------------------- constants

REQUEST_TIMEOUT == 30000
CHAT_TIMEOUT == 90000
DefaultRetryCount == 3
RetryDelay == 1000

\* ------------------------------------------------------------------- bounds

\* Logical calls that may be outstanding (or hold a result) at the same time.
MaxCalls == 2
\* Failed attempts recorded over all calls held at the same time.
MaxFails == 3
\* Date.now() ranges over 0..MaxClock.
MaxClock == 2
\* The random suffix of a session token ranges over 0..MaxRand.
MaxRand == 1

\* Pseudo-terminal processes one ClaudeTerminal spawns over its life.
MaxProcs == 2
\* Spawns that fail.
MaxSpawnFails == 1
\* startClaude calls.
MaxClaudes == 2
\* write(data) calls.
MaxWrites == 1

Slots == 1..MaxCalls
Suffixes == 0..MaxRand
Procs == 1..MaxProcs

\* ------------------------------------------------------------------- values

\* localStorage.getItem of a missing key (null).
NoToken == [t |-> -1, r |-> -1]

\* No outcome yet (a pending promise).
Pending == [k |-> "pending", v |-> ""]

\* The ways one attempt fails: fetch rejects (TypeError), the abort timer
\* fires (AbortError), the response is not ok (thrown Error), response.json()
\* rejects (SyntaxError).
Kinds == {"network", "timeout", "status", "decode"}

\* Decoded response bodies: an object without response/message fields, one
\* with a response field, one with a message field, and JSON null.
Bodies == {"{status:ok}", "{response:hi}", "{message:hello}", "null"}

\* What the stream-update callback of sendChatMessage did in a call: it was
\* not supplied or not invoked, it returned, it threw an Error, it threw null.
Callbacks == {"none", "returns", "throwsError", "throwsNull"}

TooLongMsg == "The AI is taking too long to respond. Please try again."
SingleFlightMsg == "Another request is already in progress. Please wait."
NullTypeErrorMsg == "Cannot read properties of null"
CallbackErrorMsg == "stream callback failed"
EmptyHistory == "{messages:[]}"

VARIABLES
    localStorage,         \* the item stored under 'aether_session_id'
    sessionId,            \* this.sessionId
    isRequestInProgress,  \* this.isRequestInProgress
    retryCount,           \* this.retryCount
    now,                  \* Date.now()
    calls,                \* the logical calls, one record per slot
    returned,             \* value returned by the latest getOrCreateSessionId
    prevReturned,         \* value returned by the call before it, NoToken
                          \* when there is none or the item was removed since
    preClear,             \* sessionId held when clearSession was last entered
    ptyProcess,           \* this.ptyProcess: 0 (null) or the process held
    isRunning,            \* this.isRunning
    listeners,            \* the once('ready') listeners, in subscription order
    procs,                \* the pseudo-terminal processes, in spawn order
    emitted,              \* 'ready' and 'error' events emitted so far
    claudes,              \* the startClaude calls made so far
    writes,               \* write(data) calls made so far
    dropped,              \* the write calls whose data was not forwarded
    lastOp,               \* the operation or event handled last
    currentTask,          \* the task the renderer sends with startClaude
    contextData           \* the context data it sends with startClaude

clientVars == <<localStorage, sessionId, isRequestInProgress, retryCount, now,
                calls, returned, prevReturned, preClear>>

\* The fields of a ClaudeTerminal, the processes and the events emitted.
termState == <<ptyProcess, isRunning, listeners, procs, emitted>>

\* The arguments of startClaude.
argVars == <<currentTask, contextData>>

termVars == <<ptyProcess, isRunning, listeners, procs, emitted, claudes,
              writes, dropped, lastOp, currentTask, contextData>>

vars == <<localStorage, sessionId, isRequestInProgress, retryCount, now,
          calls, returned, prevReturned, preClear, ptyProcess, isRunning,
          listeners, procs, emitted, claudes, writes, dropped, lastOp,
          currentTask, contextData>>

sessionVars == <<localStorage, sessionId, returned, prevReturned, preClear>>

\* The record of a call:
\*   op       the operation ("request", "chat", "history", "test"; "none" in a
\*            free slot)
\*   pc       where request() is suspended: "fetch" (await fetch), "json"
\*            (await response.json()), "delay" (await this.delay), or "done"
\*   attempt  the loop variable of request
\*   timeout  the per-attempt budget in ms
\*   timer    the timeout timer of the current attempt is armed
\*   aborted  controller.signal.aborted of the current attempt
\*   net      the attempts whose transport operation can still deliver
\*   body     the body decoded by response.json()
\*   sid      the session id put into the request (payload or path)
\*   cb       what the stream-update callback did
\*   fetches  fetch calls made, waits: the delays awaited, fails: the kind of
\*            each failed attempt, in order
\*   out      how request() settled, res: how the operation settled
\* A slot that holds no call.
IdleCall ==
    [op |-> "none", cb |-> "none", pc |-> "idle", sid |-> NoToken,
     timeout |-> 0, attempt |-> 0, timer |-> FALSE, aborted |-> FALSE,
     net |-> {}, body |-> "", fetches |-> 0,
     waits |-> <<>>, fails |-> <<>>, out |-> Pending, res |-> Pending]

\* ------------------------------------------------------------ SessionIdentity

\* `session_${Date.now()}_${Math.random().toString(36).substring(7)}`
NewSessionId(t, r) == [t |-> t, r |-> r]

\* getOrCreateSessionId as a function of the stored item: the token returned
\* (and stored) when Math.random() yields suffix r.
GetOrCreate(item, r) ==
    IF item = NoToken THEN NewSessionId(now, r) ELSE item

\* -------------------------------------------------------------- request engine

\* Name and message of the error object a failed attempt is caught with.
ErrorName(kind) ==
    CASE kind = "timeout" -> "AbortError"
      [] kind = "network" -> "TypeError"
      [] kind = "decode"  -> "SyntaxError"
      [] OTHER            -> "Error"

ErrorMessage(kind) ==
    CASE kind = "timeout" -> "Request timed out"
      [] kind = "network" -> "Failed to fetch"
      [] kind = "decode"  -> "Unexpected end of JSON input"
      [] OTHER            -> "HTTP 500: Internal Server Error"

\* const timeout = customTimeout || REQUEST_TIMEOUT
EffectiveTimeout(customTimeout) ==
    IF customTimeout = 0 THEN REQUEST_TIMEOUT ELSE customTimeout

\* Failed attempts recorded over the slots in S. The service fails an attempt
\* only while fewer than MaxFails are recorded.
RECURSIVE SumFails(_)
SumFails(S) ==
    IF S = {} THEN 0
    ELSE LET s == CHOOSE x \in S : TRUE
         IN  Len(calls[s].fails) + SumFails(S \ {s})

CanFail == SumFails(Slots) < MaxFails

\* response.response / response.message of a decoded body ("" when absent).
ResponseField(body) == IF body = "{response:hi}" THEN "hi" ELSE ""

MessageField(body) == IF body = "{message:hello}" THEN "hello" ELSE ""

\* The object sendChatMessage returns.
ChatResult(success, response, error) ==
    [success |-> success, response |-> response, error |-> error,
     sessionId |-> sessionId]

\* A thrown value: an Error with a message, or null.
Thrown(message) == [null |-> FALSE, message |-> message]

ThrownNull == [null |-> TRUE, message |-> ""]

\* ChatCatch with the error thrown on to the caller.
ChatCatchRethrow(error) == [k |-> "throw", v |-> error.message]

\* The catch block of sendChatMessage: reading error.message of null throws.
ChatCatch(error) ==
    IF error.null
    THEN [k |-> "throw", v |-> NullTypeErrorMsg]
    ELSE [k |-> "return", v |-> ChatResult(FALSE, "", error.message)]

\* sendChatMessage after `await this.request(...)` settled with `outcome`.
ChatSettle(cb, outcome) ==
    LET response == outcome.v
        text == IF ResponseField(response) # "" THEN ResponseField(response)
                ELSE IF MessageField(response) # "" THEN MessageField(response)
                ELSE "No response"
    IN  IF outcome.k = "throw" THEN ChatCatch(Thrown(outcome.v))
        ELSE IF response = "null" THEN ChatCatch(Thrown(NullTypeErrorMsg))
        ELSE IF cb = "throwsError" THEN ChatCatch(Thrown(CallbackErrorMsg))
        ELSE IF cb = "throwsNull" THEN ChatCatch(ThrownNull)
        ELSE [k |-> "return", v |-> ChatResult(TRUE, text, "")]

\* `if (onStreamUpdate && response.response) onStreamUpdate(...)`: what the
\* callback may do in a call of operation op that settles with `outcome`.
Invocations(op, outcome) ==
    IF op = "chat" /\ outcome.k = "return" /\ ResponseField(outcome.v) # ""
    THEN Callbacks ELSE {"none"}

\* HistoryCatch with the error thrown on to the caller.
HistoryCatchRethrow(error) == [k |-> "throw", v |-> error.message]

\* The catch block of getChatHistory.
HistoryCatch(error) == [k |-> "return", v |-> EmptyHistory]

\* getChatHistory after `await this.request(...)` settled with `outcome`.
HistorySettle(outcome) ==
    IF outcome.k = "throw" THEN HistoryCatch(Thrown(outcome.v)) ELSE outcome

\* health.status of a decoded body ("" when absent).
StatusField(body) == IF body = "{status:ok}" THEN "ok" ELSE ""

\* The object testConnection returns.
TestResult(connected, status, error) ==
    [connected |-> connected, status |-> status, error |-> error,
     sessionId |-> sessionId]

\* The catch block of testConnection.
TestCatch(error) == [k |-> "return", v |-> TestResult(FALSE, "", error.message)]

\* testConnection after `await this.getHealth()` settled with `outcome`:
\* reading health.status of a null body throws inside the try block.
TestSettle(outcome) ==
    IF outcome.k = "throw" THEN TestCatch(Thrown(outcome.v))
    ELSE IF outcome.v = "null" THEN TestCatch(Thrown(NullTypeErrorMsg))
    ELSE [k |-> "return", v |-> TestResult(TRUE, StatusField(outcome.v), "")]

\* request() settles with `outcome`; the awaiting operation continues in the
\* same task and settles too.
Settle(c, outcome, cb) ==
    [c EXCEPT !.pc = "done", !.out = outcome, !.cb = cb,
              !.res = CASE c.op = "chat"    -> ChatSettle(cb, outcome)
                        [] c.op = "history" -> HistorySettle(outcome)
                        [] c.op = "test"    -> TestSettle(outcome)
                        [] OTHER            -> outcome]

\* One pass of the loop up to `await fetch(...)`: createAbortController arms
\* the timer of a fresh controller, fetch dispatches the transport operation.
StartAttempt(c, k) ==
    [c EXCEPT !.attempt = k, !.timer = TRUE, !.aborted = FALSE,
              !.net = @ \cup {k}, !.fetches = @ + 1,
              !.pc = "fetch"]

\* BackoffDelay with a delay that does not grow with the attempt.
BackoffDelayFlat(attempt) == RetryDelay

\* this.retryDelay * attempt
BackoffDelay(attempt) == RetryDelay * attempt

\* TerminalError without the message kept for timeouts.
TerminalErrorGeneric(kind) == "Connection failed: " \o ErrorMessage(kind)

\* The error thrown when the last attempt failed with `kind`.
TerminalError(kind) ==
    IF ErrorName(kind) = "AbortError"
    THEN TooLongMsg
    ELSE "Connection failed: " \o ErrorMessage(kind)

\* Catch with a response that is not ok thrown at once instead of retried.
CatchNoRetryOnStatus(c, kind) ==
    LET c1 == [c EXCEPT !.timer = FALSE, !.fails = Append(@, kind)]
    IN  IF c.attempt = retryCount \/ kind = "status"
        THEN Settle(c1, [k |-> "throw", v |-> TerminalError(kind)], "none")
        ELSE [c1 EXCEPT !.pc = "delay",
                        !.waits = Append(@, BackoffDelay(c.attempt))]

\* Catch without its clearTimeout: the timer of the failed attempt stays
\* armed.
CatchTimerLeft(c, kind) ==
    LET c1 == [c EXCEPT !.fails = Append(@, kind)]
    IN  IF c.attempt = retryCount
        THEN Settle(c1, [k |-> "throw", v |-> TerminalError(kind)], "none")
        ELSE [c1 EXCEPT !.pc = "delay",
                        !.waits = Append(@, BackoffDelay(c.attempt))]

\* The catch block of request for an attempt that failed with `kind`.
Catch(c, kind) ==
    LET c1 == [c EXCEPT !.timer = FALSE, !.fails = Append(@, kind)]
    IN  IF c.attempt = retryCount
        THEN Settle(c1, [k |-> "throw", v |-> TerminalError(kind)], "none")
        ELSE [c1 EXCEPT !.pc = "delay",
                        !.waits = Append(@, BackoffDelay(c.attempt))]

\* Abort with a signal that fetch does not listen to.
AbortUnheard(c) == [c EXCEPT !.aborted = TRUE]

\* controller.abort(): the signal given to fetch cancels the transport
\* operation of this attempt.
Abort(c) == [c EXCEPT !.aborted = TRUE, !.net = @ \ {c.attempt}]

\* ReturnData that hands over the data and goes on with the loop.
ReturnDataNoStop(c, data, cb) ==
    IF c.attempt < retryCount
    THEN [StartAttempt(c, c.attempt + 1) EXCEPT
              !.out = [k |-> "return", v |-> data]]
    ELSE Settle(c, [k |-> "return", v |-> data], cb)

\* `return data`
ReturnData(c, data, cb) == Settle(c, [k |-> "return", v |-> data], cb)

\* AlreadyInProgress without the guard.
NeverInProgress == FALSE

\* if (this.isRequestInProgress)
AlreadyInProgress == isRequestInProgress

\* A slot a new call can be written to.
Free(s) == calls[s].pc \in {"idle", "done"}

\* A new call is written to the first free slot.
FirstFree(s) == Free(s) /\ \A t \in Slots : t < s => ~Free(t)

\* The transport operation the call in slot s is awaiting.
Awaited(c, k) == c.pc = "fetch" /\ k = c.attempt

\* A task resumes the call in slot s and leaves it as c. When the call
\* settles, the finally block of sendChatMessage clears the flag of a chat
\* call, and the result of a call that settled earlier is dropped: the slots
\* keep the result of the latest settled call only.
Resume(s, c) ==
    /\ calls' = [t \in Slots |->
                     IF t = s THEN c
                     ELSE IF c.pc = "done" /\ calls[t].pc = "done"
                          THEN IdleCall ELSE calls[t]]
    /\ isRequestInProgress' =
           IF calls[s].op = "chat" /\ c.pc = "done"
           THEN FALSE ELSE isRequestInProgress
    /\ UNCHANGED <<sessionVars, retryCount, now, termVars>>

\* ------------------------------------------------------------------- actions

\* A propagating operation (getHealth, getEdicts, ...): request(endpoint).
Request(s) ==
    /\ FirstFree(s)
    /\ Resume(s, StartAttempt([IdleCall EXCEPT !.op = "request",
                                  !.timeout = EffectiveTimeout(0)], 1))

\* getChatHistory(): request(`/api/chat/history/${this.sessionId}`).
GetChatHistory(s) ==
    /\ FirstFree(s)
    /\ Resume(s, StartAttempt([IdleCall EXCEPT !.op = "history",
                                  !.sid = sessionId,
                                  !.timeout = EffectiveTimeout(0)], 1))

\* testConnection(): getHealth(), which is request('/health').
TestConnection(s) ==
    /\ FirstFree(s)
    /\ Resume(s, StartAttempt([IdleCall EXCEPT !.op = "test",
                                  !.timeout = EffectiveTimeout(0)], 1))

\* sendChatMessage(message, onStreamUpdate) up to its first await: the throw
\* of the guard rejects the returned promise before the try block is entered.
SendChatMessage(s) ==
    /\ FirstFree(s)
    /\ IF AlreadyInProgress
       THEN /\ calls' = [calls EXCEPT ![s] =
                    [IdleCall EXCEPT !.op = "chat", !.pc = "done",
                         !.res = [k |-> "throw", v |-> SingleFlightMsg]]]
            /\ UNCHANGED isRequestInProgress
       ELSE /\ calls' = [calls EXCEPT ![s] =
                    StartAttempt([IdleCall EXCEPT !.op = "chat",
                         !.sid = sessionId,
                         !.timeout = EffectiveTimeout(CHAT_TIMEOUT)], 1)]
            /\ isRequestInProgress' = TRUE
    /\ UNCHANGED <<sessionVars, retryCount, now, termVars>>

\* A transport operation delivers response headers. The awaited one resumes
\* request after `await fetch`: the timer is cleared, a response that is not
\* ok is thrown, otherwise response.json() starts reading the body. The
\* response of an operation nobody awaits is dropped.
FetchResponds(s) ==
    \E k \in calls[s].net, ok \in BOOLEAN :
        LET c == [calls[s] EXCEPT !.net = @ \ {k}]
        IN  IF ~Awaited(calls[s], k) THEN ok /\ Resume(s, c)
            ELSE IF ok
                 THEN Resume(s, [c EXCEPT !.timer = FALSE, !.pc = "json"])
                 ELSE /\ CanFail
                      /\ Resume(s, Catch([c EXCEPT !.timer = FALSE], "status"))

\* The awaited transport operation fails: fetch rejects.
FetchRejects(s) ==
    /\ calls[s].pc = "fetch"
    /\ calls[s].attempt \in calls[s].net
    /\ CanFail
    /\ Resume(s, Catch([calls[s] EXCEPT !.net = @ \ {calls[s].attempt}],
                       "network"))

\* The timeout budget of an attempt elapses while its timer is armed: the
\* timer callback runs controller.abort(), which rejects the awaited fetch
\* with AbortError. (A timer cleared by clearTimeout never fires.)
TimeoutElapses(s) ==
    /\ calls[s].timer
    /\ CanFail
    /\ Resume(s, Catch(Abort(calls[s]), "timeout"))

\* response.json() resolves with the decoded body of the response.
JsonResolves(s) ==
    /\ calls[s].pc = "json"
    /\ \E data \in Bodies :
         \E cb \in Invocations(calls[s].op, [k |-> "return", v |-> data]) :
            Resume(s, ReturnData([calls[s] EXCEPT !.body = data], data, cb))

\* response.json() rejects (the body is not JSON, or the stream broke).
JsonRejects(s) ==
    /\ calls[s].pc = "json"
    /\ CanFail
    /\ Resume(s, Catch(calls[s], "decode"))

\* The backoff timer of delay() fires: the loop starts the next attempt.
DelayElapses(s) ==
    /\ calls[s].pc = "delay"
    /\ Resume(s, StartAttempt(calls[s], calls[s].attempt + 1))

\* getOrCreateSessionId() called on the client.
GetOrCreateSessionId ==
    /\ \E r \in Suffixes :
         /\ localStorage' = GetOrCreate(localStorage, r)
         /\ returned' = GetOrCreate(localStorage, r)
    /\ prevReturned' = returned
    /\ UNCHANGED <<sessionId, preClear, isRequestInProgress, retryCount, now,
                   calls, termVars>>

\* ClearSession that removes the item and creates no replacement.
ClearSessionRemoveOnly ==
    /\ localStorage' = NoToken
    /\ preClear' = sessionId
    /\ prevReturned' = NoToken
    /\ UNCHANGED <<sessionId, returned, isRequestInProgress, retryCount, now,
                   calls, termVars>>

\* clearSession(): removeItem, then getOrCreateSessionId().
ClearSession ==
    /\ \E r \in Suffixes :
         /\ localStorage' = GetOrCreate(NoToken, r)
         /\ sessionId' = GetOrCreate(NoToken, r)
         /\ returned' = GetOrCreate(NoToken, r)
    /\ prevReturned' = NoToken
    /\ preClear' = sessionId
    /\ UNCHANGED <<isRequestInProgress, retryCount, now, calls, termVars>>

\* The page is loaded again: a new AetherClient is constructed over the same
\* localStorage, and the calls of the old page are gone.
Restart ==
    /\ \E r \in Suffixes :
         /\ localStorage' = GetOrCreate(localStorage, r)
         /\ sessionId' = GetOrCreate(localStorage, r)
         /\ returned' = GetOrCreate(localStorage, r)
    /\ prevReturned' = returned
    /\ isRequestInProgress' = FALSE
    /\ calls' = [s \in Slots |-> IdleCall]
    /\ UNCHANGED <<preClear, retryCount, now, termVars>>

\* Date.now() advances.
Tick ==
    /\ now < MaxClock
    /\ now' = now + 1
    /\ UNCHANGED <<sessionVars, isRequestInProgress, retryCount, calls,
                   termVars>>

\* ------------------------------------------------------------ ClaudeTerminal

\* A process: st is "unspawned", "alive", "killed" (kill() was called on it
\* and its exit was not notified yet) or "exited" (its onExit handler ran);
\* input is what was written to it, size its geometry, exits the 'exit'
\* events emitted for it, killed whether kill() was ever called on it.
NoProc ==
    [st |-> "unspawned", input |-> <<>>, size |-> [cols |-> 0, rows |-> 0],
     exits |-> 0, killed |-> FALSE]

\* pty.spawn(shell, [], {cols: 80, rows: 24, ...})
SpawnedProc ==
    [st |-> "alive", input |-> <<>>, size |-> [cols |-> 80, rows |-> 24],
     exits |-> 0, killed |-> FALSE]

\* The geometries resize is called with.
Geometries == {[cols |-> 120, rows |-> 40]}

\* The data write is called with.
Data == {"ls\n"}

\* currentTask: null, a task with a priority, a task without one.
NoTask == [present |-> FALSE, title |-> "", priority |-> ""]

Tasks ==
    {NoTask,
     [present |-> TRUE, title |-> "Fix bug", priority |-> "high"],
     [present |-> TRUE, title |-> "Fix bug", priority |-> ""]}

\* contextData: null (or the empty string, falsy alike) or a text.
Contexts == {"", "urgent"}

\* The line launchClaudeCode writes first (without its leading emoji).
Banner == "echo \"Starting Claude Code in FlowSaver context...\"\n"

\* ` --context "${text}"`
ContextFlag(text) == " --context \"" \o text \o "\""

\* ClaudeCommand with the priority flag emitted whether a task is present
\* or not, and after the context data.
ClaudeCommandLoose(task, context) ==
    LET c0 == "claude"
        c1 == IF task.present
              THEN c0 \o ContextFlag("Current Task: " \o task.title) ELSE c0
        c2 == IF context # "" THEN c1 \o ContextFlag(context) ELSE c1
    IN  IF task.priority # ""
        THEN c2 \o ContextFlag("Priority: " \o task.priority) ELSE c2

\* The command line launchClaudeCode builds.
ClaudeCommand(task, context) ==
    LET c0 == "claude"
        c1 == IF task.present
              THEN c0 \o ContextFlag("Current Task: " \o task.title) ELSE c0
        c2 == IF task.present /\ task.priority # ""
              THEN c1 \o ContextFlag("Priority: " \o task.priority) ELSE c1
    IN  IF context # "" THEN c2 \o ContextFlag(context) ELSE c2

\* Processes spawned so far; they are numbered in spawn order.
Spawned == Cardinality({p \in Procs : procs[p].st # "unspawned"})

\* The fields of the terminal, its processes and its events, as one value.
Cur ==
    [ptyProcess |-> ptyProcess, isRunning |-> isRunning,
     listeners |-> listeners, procs |-> procs, emitted |-> emitted]

\* An operation or handler leaves the terminal as r.
Apply(r) ==
    /\ ptyProcess' = r.ptyProcess
    /\ isRunning' = r.isRunning
    /\ listeners' = r.listeners
    /\ procs' = r.procs
    /\ emitted' = r.emitted

\* CanForward without the test of the running flag.
CanForwardHandleOnly(handle, running) == handle # 0

\* if (this.ptyProcess && this.isRunning)
CanForward(handle, running) == handle # 0 /\ running

\* write(data) on a terminal whose fields are handle and running.
PtyWrite(ps, handle, running, entry) ==
    IF CanForward(handle, running)
    THEN [ps EXCEPT ![handle].input = Append(@, entry)]
    ELSE ps

\* resize(cols, rows) on a terminal whose fields are handle and running.
PtyResize(ps, handle, running, g) ==
    IF CanForward(handle, running)
    THEN [ps EXCEPT ![handle].size = g]
    ELSE ps

\* LaunchClaudeCode with the command line written before the banner.
LaunchClaudeCodeCommandFirst(ps, handle, running, n, task, context) ==
    PtyWrite(PtyWrite(ps, handle, running,
                      [k |-> "command", n |-> n,
                       text |-> ClaudeCommand(task, context) \o "\n"]),
             handle, running,
             [k |-> "banner", n |-> n, text |-> Banner])

\* launchClaudeCode(currentTask, contextData) of startClaude call n: two
\* writes, the banner and then the command line.
LaunchClaudeCode(ps, handle, running, n, task, context) ==
    PtyWrite(PtyWrite(ps, handle, running,
                      [k |-> "banner", n |-> n, text |-> Banner]),
             handle, running,
             [k |-> "command", n |-> n,
              text |-> ClaudeCommand(task, context) \o "\n"])

\* this.emit('ready'): the once-listeners run in subscription order, each
\* with the task and context data of the startClaude call that subscribed.
RECURSIVE FireReady(_, _, _)
FireReady(ps, handle, ls) ==
    IF ls = <<>> THEN ps
    ELSE FireReady(LaunchClaudeCode(ps, handle, TRUE, Head(ls),
                                    claudes[Head(ls)].task,
                                    claudes[Head(ls)].contextData),
                   handle, Tail(ls))

\* AlreadyRunning without the guard.
StartGuardOff == FALSE

\* if (this.isRunning) return
AlreadyRunning == isRunning

\* SpawnFailure with the flag set before the spawn threw.
SpawnFailureFlagSet(cur) ==
    [cur EXCEPT !.isRunning = TRUE, !.emitted.error = @ + 1]

\* The catch block of startSession: pty.spawn threw before anything was
\* assigned.
SpawnFailure(cur) == [cur EXCEPT !.emitted.error = @ + 1]

\* The try block of startSession when pty.spawn returns process p.
SpawnSuccess(cur, p) ==
    [cur EXCEPT !.ptyProcess = p,
                !.isRunning = TRUE,
                !.procs = FireReady([cur.procs EXCEPT ![p] = SpawnedProc],
                                    p, cur.listeners),
                !.listeners = <<>>,
                !.emitted.ready = @ + 1]

\* startSession(), where pty.spawn succeeds iff ok.
SessionStarted(ok) ==
    IF AlreadyRunning THEN Cur
    ELSE IF ok THEN SpawnSuccess(Cur, Spawned + 1)
    ELSE SpawnFailure(Cur)

\* What pty.spawn may do in a call of startSession.
SpawnOutcomes ==
    {ok \in BOOLEAN : IF ok THEN Spawned < MaxProcs
                      ELSE emitted.error < MaxSpawnFails}

\* OnExit with the running flag left as it is.
OnExitFlagKept(cur, p) == [cur EXCEPT !.procs[p].exits = @ + 1]

\* The onExit handler registered for process p.
OnExit(cur, p) ==
    [cur EXCEPT !.isRunning = FALSE, !.procs[p].exits = @ + 1]

\* KillResult with the running flag left as it is.
KillResultFlagKept(cur) ==
    IF cur.ptyProcess # 0
    THEN [cur EXCEPT !.procs[cur.ptyProcess].killed = TRUE,
                     !.procs[cur.ptyProcess].st =
                         IF @ = "alive" THEN "killed" ELSE @]
    ELSE cur

\* The body of kill().
KillResult(cur) ==
    IF cur.ptyProcess # 0
    THEN [cur EXCEPT !.procs[cur.ptyProcess].killed = TRUE,
                     !.procs[cur.ptyProcess].st =
                         IF @ = "alive" THEN "killed" ELSE @,
                     !.isRunning = FALSE]
    ELSE cur

\* The record of the operation handled last: its name, the running flag and
\* the handle it found, and what pty.spawn did in it ("none" when not called).
Op(name, spawn) ==
    [op |-> name, running |-> isRunning, handle |-> ptyProcess,
     spawn |-> spawn]

SpawnLabel(ok) ==
    IF AlreadyRunning THEN "none" ELSE IF ok THEN "spawned" ELSE "failed"

\* startSession() (IPC 'terminal-start').
StartSession ==
    /\ \E ok \in (IF isRunning THEN {TRUE} ELSE SpawnOutcomes) :
         /\ Apply(SessionStarted(ok))
         /\ lastOp' = Op("startSession", SpawnLabel(ok))
    /\ UNCHANGED <<claudes, writes, dropped, argVars, clientVars>>

\* startClaude(currentTask, contextData) (IPC 'terminal-start-claude'), with
\* the arguments the renderer holds.
StartClaude ==
    /\ Len(claudes) < MaxClaudes
    /\ LET n == Len(claudes) + 1
       IN  IF ~isRunning
           THEN \E ok \in SpawnOutcomes :
                  LET r == SessionStarted(ok)
                  IN  /\ Apply([r EXCEPT !.listeners = Append(@, n)])
                      /\ claudes' = Append(claudes,
                             [task |-> currentTask,
                              contextData |-> contextData,
                              deferred |-> TRUE,
                              proc |-> IF ok THEN r.ptyProcess ELSE 0])
                      /\ lastOp' = Op("startClaude", SpawnLabel(ok))
           ELSE /\ Apply([Cur EXCEPT !.procs =
                           LaunchClaudeCode(procs, ptyProcess, isRunning,
                                            n, currentTask, contextData)])
                /\ claudes' = Append(claudes,
                       [task |-> currentTask, contextData |-> contextData,
                        deferred |-> FALSE, proc |-> ptyProcess])
                /\ lastOp' = Op("startClaude", "none")
    /\ UNCHANGED <<writes, dropped, argVars, clientVars>>

\* write(data) (IPC 'terminal-input').
Write ==
    /\ writes < MaxWrites
    /\ \E data \in Data :
         Apply([Cur EXCEPT !.procs =
                   PtyWrite(procs, ptyProcess, isRunning,
                            [k |-> "data", n |-> writes + 1, text |-> data])])
    /\ writes' = writes + 1
    /\ dropped' = IF CanForward(ptyProcess, isRunning)
                  THEN dropped ELSE dropped \cup {writes + 1}
    /\ lastOp' = Op("write", "none")
    /\ UNCHANGED <<claudes, argVars, clientVars>>

\* resize(cols, rows) (IPC 'terminal-resize').
Resize ==
    /\ \E g \in Geometries :
         Apply([Cur EXCEPT !.procs =
                   PtyResize(procs, ptyProcess, isRunning, g)])
    /\ lastOp' = Op("resize", "none")
    /\ UNCHANGED <<claudes, writes, dropped, argVars, clientVars>>

\* kill()
Kill ==
    /\ Apply(KillResult(Cur))
    /\ lastOp' = Op("kill", "none")
    /\ UNCHANGED <<claudes, writes, dropped, argVars, clientVars>>

\* Process p terminates, by itself or after kill(), and its onExit handler
\* runs.
ProcessExits(p) ==
    /\ procs[p].st \in {"alive", "killed"}
    /\ Apply(OnExit([Cur EXCEPT !.procs[p].st = "exited"], p))
    /\ lastOp' = [Op("exit", "none") EXCEPT !.handle = p]
    /\ UNCHANGED <<claudes, writes, dropped, argVars, clientVars>>

\* The client right after its construction on a fresh installation, next to
\* a terminal right after its construction. The attempt cap is the
\* constructor's 3 or a smaller one set on the client; the renderer holds
\* the arguments args for startClaude.
InitWith(caps, args) ==
    /\ now = 0
    /\ localStorage = NewSessionId(0, 0)
    /\ sessionId = NewSessionId(0, 0)
    /\ returned = NewSessionId(0, 0)
    /\ prevReturned = NoToken
    /\ preClear = NoToken
    /\ isRequestInProgress = FALSE
    /\ retryCount \in caps
    /\ calls = [s \in Slots |-> IdleCall]
    /\ ptyProcess = 0
    /\ isRunning = FALSE
    /\ listeners = <<>>
    /\ procs = [p \in Procs |-> NoProc]
    /\ emitted = [ready |-> 0, error |-> 0]
    /\ claudes = <<>>
    /\ writes = 0
    /\ dropped = {}
    /\ lastOp = [op |-> "new", running |-> FALSE, handle |-> 0,
                 spawn |-> "none"]
    /\ \E a \in args : currentTask = a[1] /\ contextData = a[2]

\* The renderer holds no task and no context data.
Init == InitWith(1..DefaultRetryCount, {<<NoTask, "">>})

\* What happens to the calls that are under way: the steps of request().
Engine ==
    \/ \E s \in Slots : FetchResponds(s)
    \/ \E s \in Slots : FetchRejects(s)
    \/ \E s \in Slots : TimeoutElapses(s)
    \/ \E s \in Slots : JsonResolves(s)
    \/ \E s \in Slots : JsonRejects(s)
    \/ \E s \in Slots : DelayElapses(s)

\* The client used for its plain operations (getHealth, getEdicts, ...).
Next ==
    \/ \E s \in Slots : Request(s)
    \/ Engine

Spec == Init /\ [][Next]_vars

\* The client used for sending chat messages.
NextChat ==
    \/ \E s \in Slots : SendChatMessage(s)
    \/ Engine

SpecChat == Init /\ [][NextChat]_vars

\* The client used for sending chat messages while the session may be
\* reset with clearSession.
NextChatSession ==
    \/ \E s \in Slots : SendChatMessage(s)
    \/ Engine
    \/ ClearSession

SpecChatSession == Init /\ [][NextChatSession]_vars

\* The client used for reading the chat history.
NextHistory ==
    \/ \E s \in Slots : GetChatHistory(s)
    \/ Engine

SpecHistory == Init /\ [][NextHistory]_vars

\* The client used for probing the connection.
NextTest ==
    \/ \E s \in Slots : TestConnection(s)
    \/ Engine

SpecTest == Init /\ [][NextTest]_vars

\* The session identity of the client, over time and page loads.
NextSession ==
    \/ GetOrCreateSessionId
    \/ ClearSession
    \/ Restart
    \/ Tick

SpecSession == Init /\ [][NextSession]_vars

\* The terminal session of the main process, driven through its plain
\* operations, next to a client with the constructor's attempt cap.
InitTerminal == InitWith({DefaultRetryCount}, {<<NoTask, "">>})

NextTerminal ==
    \/ StartSession
    \/ Write
    \/ Resize
    \/ Kill
    \/ \E p \in Procs : ProcessExits(p)

SpecTerminal == InitTerminal /\ [][NextTerminal]_vars

\* The terminal session driven through startClaude, for every task and
\* context data the renderer may hold.
InitClaude == InitWith({DefaultRetryCount}, Tasks \X Contexts)

NextClaude ==
    \/ StartClaude
    \/ StartSession
    \/ Kill
    \/ \E p \in Procs : ProcessExits(p)

SpecClaude == InitClaude /\ [][NextClaude]_vars

\* ------------------------------------------------------------------- claims

Last(seq) == seq[Len(seq)]

C2_LinearBackoff ==
    \A s \in Slots :
        LET c == calls[s]
        IN  /\ \A k \in 1..Len(c.waits) : c.waits[k] = RetryDelay * k
            /\ Len(c.waits) = IF c.out.k = "throw"
                              THEN Len(c.fails) - 1 ELSE Len(c.fails)
            /\ c.pc \in {"fetch", "json"} => Len(c.waits) = c.attempt - 1

\* The service fails twice and then answers {status:"ok"}: the call returns
\* it after waits of 1000ms and 2000ms.
C2_Witness ==
    \E s \in Slots :
        /\ retryCount = 3
        /\ Len(calls[s].fails) = 2
        /\ calls[s].out = [k |-> "return", v |-> "{status:ok}"]
        /\ calls[s].res = [k |-> "return", v |-> "{status:ok}"]
        /\ calls[s].waits = <<1000, 2000>>

\* C3: a call that returned has returned the body decoded in its last
\* attempt, is over, and has neither a fetch, a timer nor a wait beyond that
\* attempt.
C3_SuccessStops ==
    \A s \in Slots :
        LET c == calls[s]
        IN  c.out.k = "return" =>
                /\ c.pc = "done"
                /\ c.out.v = c.body
                /\ c.body \in Bodies
                /\ c.fetches = c.attempt
                /\ Len(c.fails) = c.attempt - 1
                /\ Len(c.waits) = c.attempt - 1
                /\ c.net = {}
                /\ ~c.timer

\* A call returns from its first attempt although attempts remain.
C3_Witness ==
    \E s \in Slots :
        /\ retryCount = 3
        /\ calls[s].out.k = "return"
        /\ calls[s].attempt = 1
        /\ calls[s].fetches = 1

\* C4: an attempt that has not produced its outcome, be it awaiting the
\* response or reading the body, has its abort timer armed.
C4_TimerCoversAttempt ==
    \A s \in Slots :
        calls[s].pc \in {"fetch", "json"} => calls[s].timer

\* C5: a transport operation that can still deliver belongs to the attempt
\* being awaited, which was not aborted; none belongs to an attempt that
\* failed by timeout; a call that returned did so from an attempt that was
\* not aborted.
C5_NoLateResult ==
    \A s \in Slots :
        LET c == calls[s]
        IN  /\ \A k \in c.net : Awaited(c, k) /\ ~c.aborted
            /\ \A k \in 1..Len(c.fails) :
                   c.fails[k] = "timeout" => k \notin c.net
            /\ c.out.k = "return" =>
                   ~c.aborted /\ c.attempt \notin DOMAIN c.fails
            /\ c.out.k = "throw" => c.net = {}

\* A call whose first attempt timed out returns from its second attempt.
C5_Witness ==
    \E s \in Slots :
        /\ calls[s].fails = <<"timeout">>
        /\ calls[s].out.k = "return"
        /\ calls[s].attempt = 2

InFlightChats ==
    {s \in Slots : calls[s].op = "chat" /\ calls[s].pc \notin {"idle", "done"}}

RejectedChats ==
    {s \in Slots : calls[s].op = "chat" /\ calls[s].pc = "done"
                   /\ calls[s].fetches = 0}

\* C7: at most one chat call is under way; the guard is set exactly while one
\* is (so a call made meanwhile is turned away whatever was turned away
\* before, and the call made after it settled is taken); a call that was
\* turned away was turned away while one was under way, with the
\* single-flight error and without a fetch.
C7_SingleFlight ==
    /\ Cardinality(InFlightChats) <= 1
    /\ isRequestInProgress = (InFlightChats # {})
    /\ \A s \in RejectedChats :
           /\ InFlightChats # {}
           /\ calls[s].res.k = "throw"
           /\ calls[s].res.v = SingleFlightMsg
           /\ calls[s].out = Pending
           /\ calls[s].net = {}
    /\ \A s \in Slots :
           calls[s].op = "chat" /\ calls[s].pc = "done" /\ calls[s].fetches > 0
               => (calls[s].res.k = "throw" => calls[s].res.v # SingleFlightMsg)

\* A chat call was turned away while another, in its second attempt, is
\* under way.
C7_Witness ==
    \E a, b \in Slots :
        /\ a \in InFlightChats
        /\ calls[a].attempt = 2
        /\ b \in RejectedChats
        /\ isRequestInProgress

C9_HistorySoftFail ==
    \A s \in Slots :
        LET c == calls[s]
        IN  c.op = "history" =>
                /\ c.res.k # "throw"
                /\ c.pc = "done" => c.res.k = "return"
                /\ c.out.k = "throw" =>
                       c.res = [k |-> "return", v |-> EmptyHistory]
                /\ c.out.k = "return" => c.res = c.out /\ c.res.v = c.body

\* A history call whose request failed for good, the last time with a
\* response that was not ok, returned the empty history.
C9_Witness ==
    \E s \in Slots :
        /\ calls[s].op = "history"
        /\ calls[s].out.k = "throw"
        /\ Last(calls[s].fails) = "status"
        /\ calls[s].res = [k |-> "return", v |-> EmptyHistory]

\* C10: a getOrCreateSessionId call returns what the call before it returned
\* when no clearSession came between them (a page load between them or not),
\* and the token that clearSession and the getOrCreateSessionId calls after
\* it return differs from the token held before the clearSession.
C10_StableAndReplaced ==
    /\ prevReturned # NoToken => returned = prevReturned
    /\ preClear # NoToken => returned # preClear

\* C11: whenever a session operation has returned, the item stored under the
\* storage key is present and this.sessionId equals it.
C11_OneActiveToken ==
    /\ localStorage # NoToken
    /\ sessionId = localStorage

\* clearSession replaced the token: the stored item and this.sessionId are
\* the new token, which is not the one held before.
C11_Witness ==
    /\ preClear # NoToken
    /\ sessionId # preClear
    /\ localStorage = sessionId
    /\ returned = sessionId

\* What startClaude call n got written to process p: the positions of its
\* entries of the given kind in the input of p.
Injected(n, p, kind) ==
    {i \in DOMAIN procs[p].input :
         procs[p].input[i].k = kind /\ procs[p].input[i].n = n}

\* C12: a startClaude call made while the session was not running, whose
\* spawn succeeded, has had its banner line and its command line written to
\* the process it started exactly once each (the 'ready' event of that start
\* is emitted within the call, so the writes are due when the call returns).
C12_DeferredInjectsOnce ==
    \A n \in DOMAIN claudes :
        claudes[n].deferred /\ claudes[n].proc # 0 =>
            /\ Cardinality(Injected(n, claudes[n].proc, "banner")) = 1
            /\ Cardinality(Injected(n, claudes[n].proc, "command")) = 1

\* The context flags of a command, in order, as the composition rule gives
\* them.
ExpectedFlags(task, context) ==
    (IF task.present THEN <<"Current Task: " \o task.title>> ELSE <<>>)
    \o (IF task.present /\ task.priority # ""
        THEN <<"Priority: " \o task.priority>> ELSE <<>>)
    \o (IF context # "" THEN <<context>> ELSE <<>>)

RECURSIVE Render(_)
Render(flags) ==
    IF flags = <<>> THEN ""
    ELSE " --context \"" \o Head(flags) \o "\"" \o Render(Tail(flags))

\* The command lines written to the processes.
CommandEntries ==
    {e \in UNION {{procs[p].input[i] : i \in DOMAIN procs[p].input} :
                      p \in Procs} : e.k = "command"}

\* C13: every command line written is 'claude' followed by the flags of its
\* call in the order task, priority, context data, each present iff its
\* source is; for {title:'Fix bug', priority:'high'} and 'urgent' it is the
\* three flags in that order.
C13_CommandComposition ==
    \A e \in CommandEntries :
        LET c == claudes[e.n]
        IN  /\ e.text = "claude"
                   \o Render(ExpectedFlags(c.task, c.contextData)) \o "\n"
            /\ (c.task.present /\ c.task.priority = "high"
                    /\ c.contextData = "urgent") =>
                   e.text = "claude --context \"Current Task: Fix bug\""
                       \o " --context \"Priority: high\""
                       \o " --context \"urgent\"\n"
            /\ (~c.task.present /\ c.contextData = "") => e.text = "claude\n"

\* The command of a task with a priority and of context data was written.
C13_Witness ==
    \E e \in CommandEntries :
        /\ currentTask = [present |-> TRUE, title |-> "Fix bug",
                          priority |-> "high"]
        /\ contextData = "urgent"
        /\ Len(e.text) > Len("claude\n")

\* C14: write and resize handled while the running flag is false change
\* nothing of the terminal, its processes and its events, and the data of a
\* write that was dropped is in the input of no process, then or later.
C14_DroppedWhenNotRunning ==
    /\ [](\A p \in Procs : \A i \in DOMAIN procs[p].input :
              procs[p].input[i].k = "data" =>
                  procs[p].input[i].n \notin dropped)
    /\ [][(lastOp'.op \in {"write", "resize"} /\ ~isRunning) =>
              /\ UNCHANGED termState
              /\ lastOp'.op = "write" => writes' \in dropped']_vars

\* A write was dropped after the first process ended, and the session runs
\* a second process, which got nothing.
C14_Witness ==
    /\ dropped # {}
    /\ isRunning
    /\ ptyProcess = 2
    /\ procs[1].input = <<>>
    /\ procs[2].input = <<>>

\* C15: the onExit handler of a process runs at most once and emits one
\* 'exit' event; it clears the running flag and spawns nothing; a process is
\* spawned only within a startSession or startClaude call.
C15_ExitOnce ==
    /\ [](\A p \in Procs :
              /\ procs[p].exits <= 1
              /\ (procs[p].st = "exited") = (procs[p].exits = 1))
    /\ [][lastOp'.op = "exit" =>
              /\ ~isRunning'
              /\ ptyProcess' = ptyProcess
              /\ \A p \in Procs :
                     (procs'[p].st = "unspawned") = (procs[p].st = "unspawned")]_vars
    /\ [][(\E p \in Procs : procs[p].st = "unspawned"
                                /\ procs'[p].st # "unspawned") =>
              lastOp'.op \in {"startSession", "startClaude"}]_vars

\* The process of a running session, which nobody killed, has exited.
C15_Witness ==
    /\ lastOp.op = "exit"
    /\ lastOp.running
    /\ lastOp.handle = ptyProcess
    /\ ~procs[ptyProcess].killed
    /\ procs[ptyProcess].exits = 1
    /\ ~isRunning

\* C16: once a process of the session has exited or was killed, the session
\* is not running and no further process is spawned.
C16_TerminationIsTerminal ==
    \A p \in Procs :
        procs[p].st \in {"killed", "exited"} =>
            /\ ~isRunning
            /\ \A q \in Procs : q > p => procs[q].st = "unspawned"

\* C17: a startSession in which the spawn failed leaves the running flag
\* false; an 'error' event is emitted only in such a call, one per failure,
\* with no 'ready' event, with the flag false before and after, and with the
\* handle and the processes as they were.
C17_SpawnFailure ==
    /\ [](lastOp.spawn = "failed" => ~isRunning)
    /\ [][lastOp'.spawn = "failed" =>
              emitted'.error = emitted.error + 1]_vars
    /\ [][emitted'.error # emitted.error =>
              /\ lastOp'.spawn = "failed"
              /\ emitted'.error = emitted.error + 1
              /\ emitted'.ready = emitted.ready
              /\ ~isRunning /\ ~isRunning'
              /\ ptyProcess' = ptyProcess
              /\ procs' = procs]_vars

\* A spawn failed in a startSession made after the first process ended.
C17_Witness ==
    /\ lastOp = [op |-> "startSession", running |-> FALSE, handle |-> 1,
                 spawn |-> "failed"]
    /\ emitted = [ready |-> 1, error |-> 1]
    /\ ~isRunning

\* C18: kill() with a handle leaves the running flag false and the handle in
\* place; kill() without a handle changes nothing; a process kill() was
\* called on gets no write and no resize afterwards; the flag, once false,
\* is set again only within a startSession or startClaude call.
C18_KillAuthoritative ==
    /\ [][lastOp'.op = "kill" =>
              IF ptyProcess # 0
              THEN ~isRunning' /\ ptyProcess' = ptyProcess
              ELSE UNCHANGED termState]_vars
    /\ [][\A p \in Procs : procs[p].killed =>
              /\ procs'[p].killed
              /\ procs'[p].input = procs[p].input
              /\ procs'[p].size = procs[p].size]_vars
    /\ [][(~isRunning /\ isRunning') =>
              lastOp'.op \in {"startSession", "startClaude"}]_vars

\* The running process was killed, its exit was not notified, and a write
\* made afterwards was dropped.
C18_Witness ==
    /\ lastOp.op = "write"
    /\ ptyProcess # 0
    /\ procs[ptyProcess].st = "killed"
    /\ procs[ptyProcess].exits = 0
    /\ procs[ptyProcess].input = <<>>
    /\ dropped # {}
    /\ ~isRunning

\* C19: startSession handled while the running flag is true calls no spawn
\* and changes nothing of the terminal, its processes and its events.
C19_StartWhileRunningNoop ==
    [][(lastOp'.op = "startSession" /\ isRunning) =>
           /\ UNCHANGED termState
           /\ lastOp'.spawn = "none"]_vars

\* startSession was called on a running session, which still runs its
\* first process after one 'ready' event.
C19_Witness ==
    /\ lastOp = [op |-> "startSession", running |-> TRUE, handle |-> 1,
                 spawn |-> "none"]
    /\ isRunning
    /\ ptyProcess = 1
    /\ emitted.ready = 1
    /\ procs[2].st = "unspawned"

\* C20: a testConnection call never throws; its result carries the session
\* id, and connected is true exactly when its health request returned.
C20_ConnectedIffSucceeded ==
    \A s \in Slots :
        LET c == calls[s]
        IN  c.op = "test" /\ c.pc = "done" =>
                /\ c.res.k = "return"
                /\ c.res.v.sessionId = sessionId
                /\ c.res.v.connected = (c.out.k = "return")

\* C21: a call has at most one transport operation, that of the attempt it
\* awaits, and its timer is armed only while that attempt awaits its fetch;
\* during a backoff wait there is neither; an attempt is under way only when
\* every earlier attempt has failed and every earlier wait was made; the
\* attempt number of a call under way changes only by one, at the end of a
\* wait.
C21_SequentialAttempts ==
    /\ [](\A s \in Slots :
              LET c == calls[s]
              IN  /\ c.net \subseteq {c.attempt}
                  /\ c.timer => c.pc = "fetch" /\ c.attempt \in c.net
                  /\ c.pc = "delay" =>
                         c.net = {} /\ ~c.timer /\ Len(c.waits) = c.attempt
                  /\ c.pc \in {"fetch", "json"} =>
                         /\ Len(c.fails) = c.attempt - 1
                         /\ Len(c.waits) = c.attempt - 1)
    /\ [][\A s \in Slots :
              (calls[s].pc \notin {"idle", "done"}
                   /\ calls'[s].attempt # calls[s].attempt) =>
                  /\ calls[s].pc = "delay"
                  /\ calls'[s].attempt = calls[s].attempt + 1
                  /\ calls'[s].pc = "fetch"]_vars

\* A call awaits the fetch of its second attempt, after a first attempt that
\* timed out and the wait that followed it; one transport operation and the
\* timer of the second attempt exist.
C21_Witness ==
    \E s \in Slots :
        /\ calls[s].pc = "fetch"
        /\ calls[s].attempt = 2
        /\ calls[s].fails = <<"timeout">>
        /\ calls[s].waits = <<1000>>
        /\ calls[s].net = {2}
        /\ calls[s].timer

\* The chat calls that were taken by the guard and have settled.
SettledChats ==
    {s \in Slots : calls[s].op = "chat" /\ calls[s].pc = "done"
                   /\ calls[s].fetches > 0}

\* C22: a chat call taken by the guard resolves to a result whose success
\* field is true exactly when its request returned a body.
C22_SuccessMirrorsRequest ==
    \A s \in SettledChats :
        /\ calls[s].res.k = "return"
        /\ calls[s].res.v.success = (calls[s].out.k = "return")

\* C26: the sessionId in the result of a chat call taken by the guard is the
\* session_id that was put into the payload of that call.
C26_ResultSessionIsPayloadSession ==
    \A s \in SettledChats :
        calls[s].res.k = "return" =>
            calls[s].res.v.sessionId = calls[s].sid

\* C23: startClaude handled while the running flag is true appends to the
\* input of the process held exactly two entries, the banner line and then
\* the command line of this call ended by a newline, subscribes no listener,
\* emits nothing, and leaves the handle, the flag and every other process
\* as they were.
C23_ImmediateInjection ==
    [][(lastOp'.op = "startClaude" /\ isRunning) =>
           /\ procs'[ptyProcess].input =
                  procs[ptyProcess].input \o
                      << [k |-> "banner", n |-> Len(claudes'),
                          text |-> Banner],
                         [k |-> "command", n |-> Len(claudes'),
                          text |-> "claude"
                              \o Render(ExpectedFlags(currentTask,
                                                      contextData))
                              \o "\n"] >>
           /\ \A p \in Procs : p # ptyProcess => procs'[p] = procs[p]
           /\ listeners' = listeners
           /\ emitted' = emitted
           /\ ptyProcess' = ptyProcess
           /\ isRunning'
           /\ ~claudes'[Len(claudes')].deferred]_vars

\* startClaude was called on a running session with a task and context
\* data: the input of its process is the banner and then the command line.
C23_Witness ==
    /\ lastOp = [op |-> "startClaude", running |-> TRUE, handle |-> 1,
                 spawn |-> "none"]
    /\ currentTask.present
    /\ contextData = "urgent"
    /\ Len(procs[1].input) = 2
    /\ procs[1].input[1].k = "banner"
    /\ procs[1].input[2].k = "command"
    /\ procs[1].input[2].n = 1
    /\ listeners = <<>>
    /\ isRunning

\* C24: every banner or command line in the input of a process belongs to a
\* call that started or found running that very process, each call has at
\* most one command line written, and the lines written in a step are those
\* of the startClaude call made last.
C24_NoSupersededInjection ==
    /\ [](\A p \in Procs : \A i \in DOMAIN procs[p].input :
              LET e == procs[p].input[i]
              IN  e.k \in {"banner", "command"} =>
                      /\ claudes[e.n].proc = p
                      /\ Cardinality(Injected(e.n, p, e.k)) = 1)
    /\ [][\A p \in Procs :
              \A i \in DOMAIN procs'[p].input :
                  (i > Len(procs[p].input)
                       /\ procs'[p].input[i].k \in {"banner", "command"}) =>
                      /\ procs'[p].input[i].n = Len(claudes')
                      /\ lastOp'.op = "startClaude"]_vars

\* C25: when the running flag is true the process held is alive, and the
\* exit of a process other than the one held, while the one held is alive,
\* leaves the running flag as it was.
C25_FlagDescribesCurrentProcess ==
    /\ [](isRunning => ptyProcess # 0 /\ procs[ptyProcess].st = "alive")
    /\ [][(/\ lastOp'.op = "exit"
           /\ ptyProcess # 0
           /\ lastOp'.handle # ptyProcess
           /\ procs[ptyProcess].st = "alive") =>
              isRunning' = isRunning]_vars
====
